---- MODULE Spec2Model ----
(***************************************************************************)
(* A model of the transfer function editor of src/tfe/TFEditor.h: the      *)
(* colour codec and the over operator, the Texture with its row flip, the  *)
(* PiecewiseLinear and Tent curves, the Checkers background, the TFEditor  *)
(* compositor and the TFEditorOpenGL / TFEditorImGui cache in front of it. *)
(*                                                                         *)
(* Numbers.  A C++ float is an IEEE-754 binary32 value, written <<m, e>>   *)
(* for m * 2^e with m odd: 1 is <<1, 0>>, 0.75 is <<3, -2>>, 0 is <<0, 0>>.*)
(* <<1, 128>> and <<-1, 128>> are the infinities and <<0, 1>> is NaN.      *)
(* Every operation rounds its exact result to the nearest float, ties to   *)
(* even, as the hardware does; the sign of zero is not modelled.           *)
(* An unsigned (uint32_t, GLuint) that the code computes by a subtraction  *)
(* or a conversion is written with its two 16-bit halves, <<bits 16-31,    *)
(* bits 0-15>>, so 4294967295 is <<65535, 65535>>; a size_t is written     *)
(* with four 16-bit digits.  Sizes, loop counters and bytes are integers.  *)
(* A packed uint32_t pixel is modelled by the tuple of its four bytes      *)
(* <<bits 0-7, bits 8-15, bits 16-23, bits 24-31>>.                        *)
(***************************************************************************)
EXTENDS Integers, Sequences, FiniteSets, TLC

(***************************************************************************)
(* Bounds of the model.                                                    *)
(***************************************************************************)
MaxFuncs == 3
MaxW == 3
MaxH == 2
MaxCS == 2
MaxCPs == 3
MaxUploads == 2

VARIABLES
  ovA, ovB, ovR,          \* over: the last call's operands and its result
  curve, cret,            \* a curve object and the last result of its eval
  functions, background,  \* TFEditor: the function list and the background
  updated, prevWidth, prevHeight,  \* TFEditorOpenGL: the cache's fields
  gl,                     \* TFEditorOpenGL: the names of its OpenGL objects,
                          \* and how many images were uploaded to tfeTexture
  ret                     \* TFEditor: the last call and what it returned

overVars == <<ovA, ovB, ovR>>
curveVars == <<curve, cret>>
glVars == <<updated, prevWidth, prevHeight, gl>>
editorVars == <<functions, background, updated, prevWidth, prevHeight, gl, ret>>
vars == <<ovA, ovB, ovR, curve, cret, functions, background, updated,
          prevWidth, prevHeight, gl, ret>>

(***************************************************************************)
(* float: IEEE-754 binary32, round to nearest even                         *)
(***************************************************************************)
\* the bits of a float's significand
MantBits == 24
\* the exponent of the least subnormal float, 2^-149
EMin == -149
\* 2^EInf is the least power of two above every float; <<1, EInf>> and
\* <<-1, EInf>> are the infinities
EInf == 128

Abs(n) == IF n < 0 THEN -n ELSE n

Sgn(n) == IF n < 0 THEN -1 ELSE IF n > 0 THEN 1 ELSE 0

\* the number of bits of n, 0 <= n < 2^31
BitLen(n) ==
  IF n >= 2^30 THEN 31
  ELSE CHOOSE k \in 0 .. 30 : n < 2^k /\ (k = 0 \/ n >= 2^(k - 1))

\* the number of 0 bits below the lowest 1 bit of n, 0 < n < 2^31
LowZeros(n) == CHOOSE k \in 0 .. 30 : n % 2^k = 0 /\ (n \div 2^k) % 2 = 1

\* Norm for an m other than 0 with k zero bits below its lowest 1 bit
NormOdd(m, e, k) ==
  IF BitLen(Abs(m \div 2^k)) + e + k > EInf THEN <<Sgn(m), EInf>>
  ELSE <<m \div 2^k, e + k>>

\* the float m * 2^e written with an odd m (or as <<0, 0>>), and an infinity
\* when it is 2^EInf or more in magnitude
Norm(m, e) == IF m = 0 THEN <<0, 0>> ELSE NormOdd(m, e, LowZeros(Abs(m)))

NaN == <<0, 1>>
Zero == <<0, 0>>
One == <<1, 0>>
PInf == <<1, EInf>>
NInf == <<-1, EInf>>

IsNaN(a) == a = NaN
IsInf(a) == a[2] = EInf
IsFinite(a) == ~IsNaN(a) /\ ~IsInf(a)

\* the low bits of a significand that rounding drops: need bits are beyond
\* MantBits, sub bits are below 2^EMin
DropBits(need, sub) ==
  IF need > sub THEN (IF need > 0 THEN need ELSE 0)
  ELSE (IF sub > 0 THEN sub ELSE 0)

\* (Q + d) / 2^s rounded to the nearest integer, ties to even, 1 <= s <= 30
ShiftRound(Q, s, inexact) ==
  LET M == Q \div 2^s
      rem == Q % 2^s
      half == 2^(s - 1)
  IN  IF rem > half \/ (rem = half /\ (inexact \/ M % 2 = 1)) THEN M + 1 ELSE M

\* RoundF with the s low bits of Q dropped
RoundDrop(sgn, Q, e, inexact, s) ==
  IF s > 30 THEN Zero
  ELSE Norm(sgn * (IF s = 0 THEN Q ELSE ShiftRound(Q, s, inexact)), e + s)

\* the float nearest to sgn * (Q + d) * 2^e, where d = 0 when ~inexact and
\* 0 < d < 1 when inexact (then Q has more than MantBits bits); ties to even
RoundF(sgn, Q, e, inexact) ==
  RoundDrop(sgn, Q, e, inexact, DropBits(BitLen(Q) - MantBits, EMin - e))

\* |a| scaled to MantBits bits, and the exponent that goes with it
Mant(a) == Abs(a[1]) * 2^(MantBits - BitLen(Abs(a[1])))
Expo(a) == a[2] - (MantBits - BitLen(Abs(a[1])))

fneg(a) == IF IsNaN(a) THEN NaN ELSE <<-a[1], a[2]>>

\* the float nearest to X * 2^e
RoundInt(X, e) == RoundF(Sgn(X), Abs(X), e, FALSE)

\* the float nearest to sa * A * 2^ea + sb * B * 2^eb for significands A and B
\* of MantBits bits and ea >= eb
AddScaled(sa, A, ea, sb, B, eb) ==
  LET d == ea - eb
      k == d - 5
      Bq == IF k > 30 THEN 0 ELSE B \div 2^k
      lost == IF k > 30 THEN TRUE ELSE B % 2^k # 0
  IN  IF d <= 5 THEN RoundInt(sa * A * 2^d + sb * B, eb)
      ELSE RoundF(sa,
                  IF sa = sb THEN A * 32 + Bq
                  ELSE IF lost THEN A * 32 - Bq - 1 ELSE A * 32 - Bq,
                  ea - 5, lost)

\* the sum of two finite floats other than 0, |a| >= |b| in exponent
AddOrdered(a, b) ==
  AddScaled(Sgn(a[1]), Mant(a), Expo(a), Sgn(b[1]), Mant(b), Expo(b))

\* the sum of two finite floats other than 0; ge tells whether a has the
\* greater exponent
AddFinite(a, b, ge) == AddOrdered(IF ge THEN a ELSE b, IF ge THEN b ELSE a)

fadd(a, b) ==
  IF IsNaN(a) \/ IsNaN(b) THEN NaN
  ELSE IF IsInf(a) /\ IsInf(b) THEN (IF a = b THEN a ELSE NaN)
  ELSE IF IsInf(a) THEN a
  ELSE IF IsInf(b) THEN b
  ELSE IF a = Zero THEN b
  ELSE IF b = Zero THEN a
  ELSE AddFinite(a, b, Expo(a) >= Expo(b))

fsub(a, b) == fadd(a, fneg(b))

\* the float nearest to sgn * (H * 2^24 + L) * 2^e for a product of 47 or 48
\* bits, L < 2^24
RoundWide(sgn, H, L, e) ==
  RoundF(sgn, 8 * H + L \div 2^21, e + 21, L % 2^21 # 0)

\* the float nearest to sgn * (A * B) * 2^e for significands of MantBits
\* bits, of 12-bit halves a1, a0 and b1, b0; mid is a1 * b0 + a0 * b1
MulHalves(sgn, a1, a0, b1, b0, mid, e) ==
  RoundWide(sgn,
            a1 * b1 + mid \div 4096 + ((mid % 4096) * 4096 + a0 * b0) \div 2^24,
            ((mid % 4096) * 4096 + a0 * b0) % 2^24, e)

MulScaled(sgn, A, B, e) ==
  MulHalves(sgn, A \div 4096, A % 4096, B \div 4096, B % 4096,
            (A \div 4096) * (B % 4096) + (A % 4096) * (B \div 4096), e)

\* the product of two finite floats other than 0
MulFinite(a, b) ==
  MulScaled(Sgn(a[1]) * Sgn(b[1]), Mant(a), Mant(b), Expo(a) + Expo(b))

fmul(a, b) ==
  IF IsNaN(a) \/ IsNaN(b) THEN NaN
  ELSE IF IsInf(a) \/ IsInf(b)
       THEN (IF a = Zero \/ b = Zero THEN NaN
             ELSE <<Sgn(a[1]) * Sgn(b[1]), EInf>>)
  ELSE IF a = Zero \/ b = Zero THEN Zero
  ELSE MulFinite(a, b)

\* k <= 7 more bits of the quotient qr[1], remainder qr[2], of a long
\* division by b < 2^MantBits
DivBits(qr, b, k) ==
  <<qr[1] * 2^k + (qr[2] * 2^k) \div b, (qr[2] * 2^k) % b>>

\* the float nearest to sgn * (qr[1] + d) * 2^e, where d is 0 when the
\* remainder qr[2] is, and 0 < d < 1 otherwise
RoundQuot(sgn, qr, e) == RoundF(sgn, qr[1], e, qr[2] # 0)

\* the float nearest to sgn * (An / Bn) * 2^(e + 26) for significands of
\* MantBits bits
DivScaled(sgn, An, Bn, e) ==
  RoundQuot(sgn,
            DivBits(DivBits(DivBits(DivBits(<<An \div Bn, An % Bn>>, Bn, 7),
                                    Bn, 7), Bn, 6), Bn, 6),
            e)

\* the float nearest to sgn * (A / B) * 2^e for 0 < A, B < 2^MantBits: 26
\* bits of the quotient after its leading one
DivRound(sgn, A, B, e) ==
  DivScaled(sgn, A * 2^(MantBits - BitLen(A)), B * 2^(MantBits - BitLen(B)),
            e + BitLen(A) - BitLen(B) - 26)

fdiv(a, b) ==
  IF IsNaN(a) \/ IsNaN(b) THEN NaN
  ELSE IF IsInf(a) THEN (IF IsInf(b) THEN NaN
                         ELSE <<a[1] * (IF b[1] < 0 THEN -1 ELSE 1), EInf>>)
  ELSE IF IsInf(b) THEN Zero
  ELSE IF b = Zero THEN (IF a = Zero THEN NaN ELSE <<Sgn(a[1]), EInf>>)
  ELSE IF a = Zero THEN Zero
  ELSE DivRound(Sgn(a[1]) * Sgn(b[1]), Abs(a[1]), Abs(b[1]), a[2] - b[2])

\* the float literal n/d, e.g. 0.6f is F(6, 10)
F(n, d) == IF n = 0 THEN Zero ELSE DivRound(Sgn(n) * Sgn(d), Abs(n), Abs(d), 0)

\* |a| < |b| for floats that are not NaN
MagLess(a, b) ==
  IF b = Zero THEN FALSE
  ELSE IF a = Zero THEN TRUE
  ELSE LET ta == BitLen(Abs(a[1])) + a[2]
           tb == BitLen(Abs(b[1])) + b[2]
       IN  ta < tb \/ (ta = tb /\ Mant(a) < Mant(b))

\* a < b on floats: false as soon as one operand is NaN
flt(a, b) ==
  /\ ~IsNaN(a)
  /\ ~IsNaN(b)
  /\ IF Sgn(a[1]) # Sgn(b[1]) THEN Sgn(a[1]) < Sgn(b[1])
     ELSE IF a[1] > 0 THEN MagLess(a, b)
     ELSE IF a[1] < 0 THEN MagLess(b, a)
     ELSE FALSE

fgt(a, b) == flt(b, a)

\* fmaxf of <cmath>: a NaN operand is ignored
fmaxf(a, b) ==
  IF IsNaN(a) THEN b ELSE IF IsNaN(b) THEN a ELSE IF flt(a, b) THEN b ELSE a

(***************************************************************************)
(* unsigned: 32 bits, written <<bits 16-31, bits 0-15>>; size_t: 64 bits,  *)
(* written with four such digits                                           *)
(***************************************************************************)
\* the unsigned of value n, 0 <= n < 2^31
U(n) == <<n \div 65536, n % 65536>>

\* a - b in unsigned arithmetic
USub(a, b) ==
  LET lo == a[2] - b[2]
      hi == a[1] - b[1] - (IF lo < 0 THEN 1 ELSE 0)
  IN  <<hi % 65536, lo % 65536>>

ULess(a, b) == a[1] < b[1] \/ (a[1] = b[1] /\ a[2] < b[2])

\* float(u)
UToFloat(u) ==
  RoundF(1,
         IF u[1] < 32768 THEN u[1] * 65536 + u[2] ELSE u[1] * 2^14 + u[2] \div 4,
         IF u[1] < 32768 THEN 0 ELSE 2,
         u[1] >= 32768 /\ u[2] % 4 # 0)

\* the low 32 bits of floor(m * 2^e), m >= 0
TruncLow(m, e) ==
  IF e <= -31 \/ e >= 32 THEN <<0, 0>>
  ELSE IF e <= 0 THEN U(m \div 2^(-e))
  ELSE IF e >= 16 THEN <<(m % 2^(32 - e)) * 2^(e - 16), 0>>
  ELSE <<(m \div 2^(16 - e)) % 65536, (m % 2^(16 - e)) * 2^e>>

\* float -> unsigned conversion (unsigned y = yf * height): truncation towards
\* zero when the truncated value is representable.  Otherwise the conversion
\* is undefined; sat tells what the build does then: a saturating conversion
\* (sat), or the low 32 bits of a conversion to a 64-bit integer, which are 0
\* when that conversion fails too (~sat).
ToUnsigned(f, sat) ==
  IF IsNaN(f) THEN <<0, 0>>
  ELSE IF IsInf(f) THEN (IF sat /\ f[1] > 0 THEN <<65535, 65535>> ELSE <<0, 0>>)
  ELSE IF f[1] >= 0
       THEN (IF sat /\ BitLen(f[1]) + f[2] > 32 THEN <<65535, 65535>>
             ELSE TruncLow(f[1], f[2]))
  ELSE IF sat THEN <<0, 0>>
  ELSE USub(<<0, 0>>, TruncLow(-f[1], f[2]))

\* size_t(u)
SizeT(u) == <<0, 0, u[1], u[2]>>

\* a + b in size_t arithmetic
SAdd(a, b) ==
  LET s4 == a[4] + b[4]
      s3 == a[3] + b[3] + s4 \div 65536
      s2 == a[2] + b[2] + s3 \div 65536
      s1 == a[1] + b[1] + s2 \div 65536
  IN  <<s1 % 65536, s2 % 65536, s3 % 65536, s4 % 65536>>

\* the product of two 16-bit digits, <<bits 16-31, bits 0-15>>
Mul16(a, b) ==
  LET t == a * (b % 256)
      s == a * (b \div 256)
      low == (s % 256) * 256 + t
  IN  <<s \div 256 + low \div 65536, low % 65536>>

\* the size_t p3 * 2^32 + (p1 + p2) * 2^16 + p0 for four products of digits
SumProducts(p0, p1, p2, p3) ==
  LET c1 == p0[1] + p1[2] + p2[2]
      c2 == c1 \div 65536 + p1[1] + p2[1] + p3[2]
  IN  <<(c2 \div 65536 + p3[1]) % 65536, c2 % 65536, c1 % 65536, p0[2]>>

\* size_t(a) * b for unsigneds a and b
UMulWide(a, b) ==
  SumProducts(Mul16(a[2], b[2]), Mul16(a[2], b[1]),
              Mul16(a[1], b[2]), Mul16(a[1], b[1]))

\* clamp of math.h
clamp(f, lo, hi) == IF flt(f, lo) THEN lo ELSE IF fgt(f, hi) THEN hi ELSE f

(***************************************************************************)
(* color conversion functions                                              *)
(***************************************************************************)
\* 255.f
F255 == <<255, 0>>

\* static_cast<uint32_t>(255.f * clamp(f, 0.f, 1.f)): a byte.  The product
\* lies in [0, 255] or is NaN, which every build converts to 0.
cvt_uint32_float(f) ==
  ToUnsigned(fmul(F255, clamp(f, Zero, One)), FALSE)[2]

\* the four channels x, y, z, w of a vec4f, or the four bytes of a pixel
Vec4(ch) == <<ch[1], ch[2], ch[3], ch[4]>>

cvt_uint32(v) == Vec4([c \in 1 .. 4 |-> cvt_uint32_float(v[c])])

\* u / 255.0f for a byte u
cvt_float32(u) == fdiv(UToFloat(U(u)), F255)

cvt_rgba32f(u) == Vec4([c \in 1 .. 4 |-> cvt_float32(u[c])])

\* over with a straight (not premultiplied) source: A.w * A + (1 - A.w) * B
overStraight(A, B) ==
  Vec4([c \in 1 .. 4 |->
          fadd(fmul(A[4], A[c]), fmul(fsub(One, A[4]), B[c]))])

\* A + (1.f - A.w) * B, channel by channel
over(A, B) == Vec4([c \in 1 .. 4 |-> fadd(A[c], fmul(fsub(One, A[4]), B[c]))])

(***************************************************************************)
(* Texture: width and height are integers, the x and y of its methods are  *)
(* unsigneds                                                               *)
(***************************************************************************)
\* Texture(w, h): w*h pixels, all zero
Texture(w, h) ==
  [width |-> w, height |-> h, data |-> [i \in 0 .. (w * h - 1) |-> <<0, 0, 0, 0>>]]

\* x + size_t(width) * y
linearIndex(tex, x, y) == SAdd(SizeT(x), UMulWide(U(tex.width), y))

\* height - y - 1
flip(tex, y) == USub(USub(U(tex.height), y), U(1))

\* whether the size_t i is the index of an element of data
IndexInData(tex, i) ==
  /\ i[1] = 0
  /\ i[2] = 0
  /\ i[3] < 32768
  /\ (i[3] * 65536 + i[4]) \in DOMAIN tex.data

\* data[i] = val; a write outside data leaves the texture's pixels alone
\* (what else it does is recorded by the caller as an out-of-bounds access)
DataSet(tex, i, val) ==
  IF IndexInData(tex, i)
  THEN [tex EXCEPT !.data[i[3] * 65536 + i[4]] = val]
  ELSE tex

\* data[i], when there is such an element
DataGet(tex, i) == tex.data[i[3] * 65536 + i[4]]

\* set(x, y, val)
TexSet(tex, x, y, val) == DataSet(tex, linearIndex(tex, x, flip(tex, y)), val)

\* get(x, y)
TexGet(tex, x, y) == DataGet(tex, linearIndex(tex, x, flip(tex, y)))

\* The texture left by loops that call set(x, y, pix[x, y]) once for every
\* x < w and y < h on a w*h texture: element i of data is the pixel of
\* column i % w and of the row y with flip(y) = i / w.
TexOfPixels(w, h, pix) ==
  [width |-> w, height |-> h,
   data |-> [i \in 0 .. (w * h - 1) |-> pix[i % w, h - 1 - (i \div w)]]]

(***************************************************************************)
(* Function, PiecewiseLinear, Tent                                         *)
(***************************************************************************)
\* box1f valueRange{0.f, 1.f}
DefaultRange == [lower |-> Zero, upper |-> One]

\* the permutations of 1 .. n
Perms(n) == {p \in [1 .. n -> 1 .. n] : \A i, j \in 1 .. n : i # j => p[i] # p[j]}

Ascending(s) == \A i \in 1 .. Len(s) - 1 : ~flt(s[i + 1][1], s[i][1])

\* std::sort by a.x < b.x: the outcomes are the permutations of cps that
\* ascend in x (the order of control points with equal x is unspecified)
SortedPerms(cps) ==
  {s \in {[i \in 1 .. Len(cps) |-> cps[p[i]]] : p \in Perms(Len(cps))} : Ascending(s)}

\* PiecewiseLinear(CPs, numCPs), with sorted one outcome of the sort
PiecewiseLinear(sorted) ==
  [kind |-> "PiecewiseLinear", controlPoints |-> sorted, valueRange |-> DefaultRange]

\* float m = (p2.y-p1.y) / (p2.x-p1.x); float xf = x-p1.x;
\* return p1.y + m * xf
Interpolate(p1, p2, x) ==
  fadd(p1[2], fmul(fdiv(fsub(p2[2], p1[2]), fsub(p2[1], p1[1])), fsub(x, p1[1])))

RECURSIVE PLScan(_, _, _)
PLScan(cps, i, x) ==
  IF i > Len(cps) - 1 THEN Zero
  ELSE LET p1 == cps[i]
           p2 == cps[i + 1]
       IN  IF fgt(p1[1], x) \/ flt(p2[1], x) THEN PLScan(cps, i + 1, x)
           ELSE Interpolate(p1, p2, x)

\* PiecewiseLinear::eval
PLEval(pl, x) ==
  IF \/ Len(pl.controlPoints) < 2
     \/ flt(x, pl.valueRange.lower)
     \/ fgt(x, pl.valueRange.upper)
  THEN Zero
  ELSE PLScan(pl.controlPoints, 1, x)

\* 2.f
Two == <<1, 1>>

\* the four control points of Tent::initInternal, before they are sorted
TentCPs(tipPos, topWidth, bottomWidth) ==
  << <<fsub(tipPos[1], fdiv(bottomWidth, Two)), Zero>>,
     <<fsub(tipPos[1], fdiv(topWidth, Two)), tipPos[2]>>,
     <<fadd(tipPos[1], fdiv(topWidth, Two)), tipPos[2]>>,
     <<fadd(tipPos[1], fdiv(bottomWidth, Two)), Zero>> >>

\* Tent(tip, tw, bw): internal is built by initInternal, and its valueRange
\* is a copy of the Tent's own at that time
Tent(tipPos, topWidth, bottomWidth, sorted) ==
  [kind |-> "Tent", tipPos |-> tipPos, topWidth |-> topWidth,
   bottomWidth |-> bottomWidth, valueRange |-> DefaultRange,
   internal |-> [PiecewiseLinear(sorted) EXCEPT !.valueRange = DefaultRange]]

\* Tent::eval
TentEval(t, x) == PLEval(t.internal, x)

\* the virtual call f->eval(x)
Eval(f, x) == IF f.kind = "Tent" THEN TentEval(f, x) ELSE PLEval(f, x)

(***************************************************************************)
(* Function::rasterize, Checkers::rasterize                                *)
(***************************************************************************)
\* cvt_uint32(vec4f(0.6f, 0.6f, 0.6f, 0.95f))
Gray == cvt_uint32(<<F(6, 10), F(6, 10), F(6, 10), F(95, 100)>>)

\* cvt_uint32(vec4f(1.f, 0.5f, 0.f, 1.f))
Orange == cvt_uint32(<<One, F(1, 2), Zero, One>>)

\* x / float(width - 1)
XNorm(x, width) == fdiv(UToFloat(U(x)), UToFloat(USub(U(width), U(1))))

\* unsigned yval = yf * height
YVal(yf, height, sat) == ToUnsigned(fmul(yf, UToFloat(U(height))), sat)

\* the loops of Function::rasterize over x and y < yval, for the yval of
\* every column
FillBelow(width, height, yval) ==
  TexOfPixels(width, height,
    [x \in 0 .. width - 1, y \in 0 .. height - 1 |->
       IF ULess(U(y), yval[x]) THEN Gray ELSE <<0, 0, 0, 0>>])

\* Function::rasterize(width, height): column x is filled with gray from row
\* 0 up to row yval - 1, the other pixels stay zero; the rows at and above
\* height that a yval > height asks for are outside the texture
FunctionRasterize(f, width, height, sat) ==
  FillBelow(width, height,
            [x \in 0 .. width - 1 |-> YVal(Eval(f, XNorm(x, width)), height, sat)])

\* whether Function::rasterize calls set(x, y, .) with y >= height
FunctionRasterizeOOB(f, width, height, sat) ==
  \E x \in 0 .. width - 1 :
    ULess(U(height), YVal(Eval(f, XNorm(x, width)), height, sat))

\* Checkers(cs, c1, c2)
Checkers(cs, c1, c2) ==
  [kind |-> "Checkers", checkerSize |-> cs, color1 |-> c1, color2 |-> c2]

\* Layer::SP background{nullptr}
NullLayer == [kind |-> "nullptr"]

\* the checkers with the cell size left out
CheckersPixelNoCell(bg, x, y) ==
  LET c == IF (x % 2) = (y % 2) THEN bg.color1 ELSE bg.color2
  IN  cvt_uint32(<<c[1], c[2], c[3], One>>)

CheckersPixel(bg, x, y) ==
  LET xx == x \div bg.checkerSize
      yy == y \div bg.checkerSize
      c == IF (xx % 2) = (yy % 2) THEN bg.color1 ELSE bg.color2
  IN  cvt_uint32(<<c[1], c[2], c[3], One>>)

\* Checkers::rasterize(width, height)
CheckersRasterize(bg, width, height) ==
  TexOfPixels(width, height,
    [x \in 0 .. width - 1, y \in 0 .. height - 1 |-> CheckersPixel(bg, x, y)])

(***************************************************************************)
(* TFEditor                                                                *)
(***************************************************************************)
\* The Function objects the caller has made; an editor holds shared pointers
\* to them, modelled by their indices here, and 0 models the null pointer.
\* 1: the PiecewiseLinear of examples/simple; 2: a low and narrow Tent;
\* 3: a curve below zero.
Catalogue ==
  << PiecewiseLinear(CHOOSE s \in SortedPerms(
         << <<Zero, One>>, <<F(3, 10), F(8, 10)>>, <<One, One>> >>) : TRUE),
     Tent(<<F(1, 2), F(1, 2)>>, Zero, F(1, 2),
          CHOOSE s \in SortedPerms(
            TentCPs(<<F(1, 2), F(1, 2)>>, Zero, F(1, 2))) : TRUE),
     PiecewiseLinear(CHOOSE s \in SortedPerms(
         << <<Zero, F(-1, 2)>>, <<One, F(-1, 2)>> >>) : TRUE) >>

FuncPtrs == 1 .. Len(Catalogue)

Deref(ptr) == Catalogue[ptr]

\* the Layer pointers given to setBackground: null, and checkers of yellow
\* and blue
Backgrounds ==
  {NullLayer} \cup {Checkers(cs, <<One, One, Zero>>, <<Zero, Zero, One>>) :
                      cs \in 1 .. MaxCS}

\* TFEditor::select: the loop from index i down
RECURSIVE SelectFrom(_, _, _)
SelectFrom(fs, i, pos) ==
  IF i < 1 THEN 0
  ELSE IF flt(pos[2], Eval(Deref(fs[i]), pos[1])) THEN fs[i]
  ELSE SelectFrom(fs, i - 1, pos)

\* select with the list searched from its first element on
RECURSIVE SelectFront(_, _)
SelectFront(fs, pos) ==
  IF fs = <<>> THEN 0
  ELSE IF flt(pos[2], Eval(Deref(Head(fs)), pos[1])) THEN Head(fs)
  ELSE SelectFront(Tail(fs), pos)

Select(fs, pos) == SelectFrom(fs, Len(fs), pos)

\* TFEditor::eval: the loop from index i up, with res so far
RECURSIVE EditorEvalFrom(_, _, _, _)
EditorEvalFrom(fs, i, x, res) ==
  IF i > Len(fs) THEN res
  ELSE EditorEvalFrom(fs, i + 1, x, fmaxf(res, Eval(Deref(fs[i]), x)))

\* eval that keeps the value of the last function instead of the maximum
EditorEvalLast(fs, x) ==
  IF fs = <<>> THEN Zero ELSE Eval(Deref(fs[Len(fs)]), x)

EditorEval(fs, x) == EditorEvalFrom(fs, 1, x, Zero)

\* the body of the loops of layerOver, for the pixel a of A and b of B:
\* dst = cvt_rgba32f(a); src = cvt_rgba32f(b); dst = over(src, dst); and
\* cvt_uint32(dst) is stored
layerOverPixel(a, b) ==
  [p \in {<<a, b>>} |-> cvt_uint32(over(cvt_rgba32f(p[2]), cvt_rgba32f(p[1])))][<<a, b>>]

\* layerOver with the operands of over exchanged
layerOverSwapped(A, B) ==
  TexOfPixels(A.width, A.height,
    [x \in 0 .. A.width - 1, y \in 0 .. A.height - 1 |->
       layerOverPixel(TexGet(B, U(x), U(y)), TexGet(A, U(x), U(y)))])

\* TFEditor::layerOver(A, B): every pixel of B becomes B over A
layerOver(A, B) ==
  TexOfPixels(A.width, A.height,
    [x \in 0 .. A.width - 1, y \in 0 .. A.height - 1 |->
       layerOverPixel(TexGet(A, U(x), U(y)), TexGet(B, U(x), U(y)))])

\* the loop over the functions of TFEditor::rasterize, from index i on
RECURSIVE CompositeFrom(_, _, _, _)
CompositeFrom(fs, i, tex, sat) ==
  IF i > Len(fs) THEN tex
  ELSE CompositeFrom(fs, i + 1,
         layerOver(FunctionRasterize(Deref(fs[i]), tex.width, tex.height, sat), tex),
         sat)

\* float yf = eval(xf) for column x of the outline loop
OutlineYf(fs, x, width) == EditorEval(fs, XNorm(x, width))

\* whether the outline plots a pixel in column x: yf > 0.f
OutlinePlots(fs, x, width) == fgt(OutlineYf(fs, x, width), Zero)

\* the row of the outline pixel of column x: unsigned y = yf * height
OutlineY(fs, x, width, height, sat) ==
  YVal(OutlineYf(fs, x, width), height, sat)

\* the body of the outline loop for column x and yf = eval(xf):
\* if (yf > 0.f) tex.set(x, unsigned(yf * height), orange)
OutlinePlot(tex, x, yf, sat) ==
  IF fgt(yf, Zero) THEN TexSet(tex, U(x), YVal(yf, tex.height, sat), Orange)
  ELSE tex

\* whether that body calls set with a y >= height
OutlineOOB(yf, height, sat) ==
  fgt(yf, Zero) /\ ~ULess(YVal(yf, height, sat), U(height))

\* the outline loop of TFEditor::rasterize, from column x on
RECURSIVE OutlineFrom(_, _, _, _)
OutlineFrom(fs, tex, x, sat) ==
  IF x >= tex.width THEN tex
  ELSE OutlineFrom(fs, OutlinePlot(tex, x, OutlineYf(fs, x, tex.width), sat),
                   x + 1, sat)

\* bool showOutline{true}: private, and nothing changes it
showOutline == TRUE

\* if (background) layerOver(background->rasterize(width, height), tex)
Underlay(bg, tex) ==
  IF bg # NullLayer THEN layerOver(CheckersRasterize(bg, tex.width, tex.height), tex)
  ELSE tex

\* if (showOutline) the outline loop
Outline(fs, tex, sat) == IF showOutline THEN OutlineFrom(fs, tex, 0, sat) ELSE tex

\* TFEditor::rasterize(width, height): the texture it builds
Rasterize(fs, bg, width, height, sat) ==
  Outline(fs, Underlay(bg, CompositeFrom(fs, 1, Texture(width, height), sat)), sat)

\* whether TFEditor::rasterize calls set or get with a y >= height (its x are
\* loop counters below width): in the area fill of a function, or in the
\* outline
RasterizeOOB(fs, width, height, sat) ==
  \/ \E i \in 1 .. Len(fs) : FunctionRasterizeOOB(Deref(fs[i]), width, height, sat)
  \/ /\ showOutline
     /\ \E x \in 0 .. width - 1 :
          OutlineOOB(OutlineYf(fs, x, width), height, sat)

(***************************************************************************)
(* Values that stand for "no call yet" and for variables a specification   *)
(* does not use.                                                           *)
(***************************************************************************)
NoVec == <<>>
NoCurve == [kind |-> "none"]
NoEval == [op |-> "none"]
NoRet == [op |-> "none"]

OverIdle == ovA = NoVec /\ ovB = NoVec /\ ovR = NoVec
CurveIdle == curve = NoCurve /\ cret = NoEval
EditorIdle ==
  /\ functions = <<>>
  /\ background = NullLayer
  /\ updated = TRUE
  /\ prevWidth = 0
  /\ prevHeight = 0
  /\ gl = [texture |-> U(0), tfeTexture |-> USub(U(0), U(1)),
           framebuffer |-> U(0), depthbuffer |-> U(0), uploads |-> 0]
  /\ ret = NoRet

(***************************************************************************)
(* over, called on operands drawn from a set of colours                    *)
(***************************************************************************)
\* the channel values of the operands: 0, 2^-30, 0.5 and 1
Channels == {Zero, <<1, -30>>, F(1, 2), One}

Colours == Channels \X Channels \X Channels \X Channels

\* the call over(ovA, ovB)
CallOver ==
  /\ ovR = NoVec
  /\ ovR' = over(ovA, ovB)
  /\ UNCHANGED <<ovA, ovB, curveVars, editorVars>>

InitOver ==
  /\ ovA \in Colours
  /\ ovB \in Colours
  /\ ovR = NoVec
  /\ CurveIdle
  /\ EditorIdle

NextOver == CallOver

SpecOver == InitOver /\ [][NextOver]_vars

(***************************************************************************)
(* A curve: construction, the public field valueRange, eval                *)
(***************************************************************************)
\* the control points of the arrays: x is 0, 0.1 or 1; two y at every x; and
\* (0.1, 0.1), which an interpolation from (0, 1) does not meet exactly
Points ==
  {<<Zero, Zero>>, <<Zero, One>>, <<F(1, 10), F(1, 10)>>, <<F(1, 10), One>>,
   <<One, Zero>>, <<One, One>>}

\* the control point arrays handed to PiecewiseLinear(CPs, numCPs)
CPInputs == UNION {[1 .. n -> Points] : n \in 0 .. MaxCPs}

\* the arguments of Tent(tip, tw, bw)
Tips == {<<F(1, 2), One>>, <<F(1, 2), F(1, 2)>>}
TopWidths == {Zero, F(1, 2)}
BottomWidths == {F(1, 2), One}

\* the values the caller gives to the public field valueRange
Ranges ==
  {DefaultRange, [lower |-> Zero, upper |-> F(1, 4)],
   [lower |-> F(1, 2), upper |-> One]}

\* the arguments of eval
EvalXs == {F(-1, 2), Zero, F(1, 10), F(1, 4), F(1, 2), One, F(3, 2)}

NewPiecewiseLinear(CPs) ==
  /\ curve = NoCurve
  /\ \E sorted \in SortedPerms(CPs) : curve' = PiecewiseLinear(sorted)
  /\ cret' = NoEval
  /\ UNCHANGED <<overVars, editorVars>>

NewTent(tip, tw, bw) ==
  /\ curve = NoCurve
  /\ \E sorted \in SortedPerms(TentCPs(tip, tw, bw)) :
        curve' = Tent(tip, tw, bw, sorted)
  /\ cret' = NoEval
  /\ UNCHANGED <<overVars, editorVars>>

\* the caller's assignment f->valueRange = r to the public field
SetValueRange(r) ==
  /\ curve # NoCurve
  /\ curve' = [curve EXCEPT !.valueRange = r]
  /\ cret' = NoEval
  /\ UNCHANGED <<overVars, editorVars>>

CurveEval(x) ==
  /\ curve # NoCurve
  /\ cret' = [op |-> "eval", x |-> x, val |-> Eval(curve, x)]
  /\ UNCHANGED <<curve, overVars, editorVars>>

InitCurve == OverIdle /\ CurveIdle /\ EditorIdle

NextCurve ==
  \/ \E CPs \in CPInputs : NewPiecewiseLinear(CPs)
  \/ \E tip \in Tips, tw \in TopWidths, bw \in BottomWidths : NewTent(tip, tw, bw)
  \/ \E r \in Ranges : SetValueRange(r)
  \/ \E x \in EvalXs : CurveEval(x)

SpecCurve == InitCurve /\ [][NextCurve]_vars

(***************************************************************************)
(* A TFEditor and its caller, which makes one call at a time: ret holds    *)
(* the call that has returned until the caller goes on (Return).           *)
(***************************************************************************)
\* the widths given to rasterize: 1, where width - 1 is 0, and MaxW
Widths == {1, MaxW}

\* the arguments of select and eval
SelectXs == {Zero, F(1, 2)}
SelectYs == {F(-3, 4), F(1, 4), F(7, 8)}
EditorEvalXs == {Zero, F(1, 4), F(1, 2), NaN}

NoTex == Texture(0, 0)

\* a call whose out-of-bounds access stopped the program
Crashed == ret.op \in {"rasterize", "draw"} /\ ret.crashed

\* TFEditor::addFunction
TFEditor_addFunction(f) ==
  /\ Len(functions) < MaxFuncs
  /\ functions' = Append(functions, f)
  /\ UNCHANGED background

\* TFEditor::setBackground
TFEditor_setBackground(bg) ==
  /\ background' = bg
  /\ UNCHANGED functions

\* TFEditor::moveToTop: its body is empty
TFEditor_moveToTop(f) == UNCHANGED <<functions, background>>

AddFunction(f) ==
  /\ ret = NoRet
  /\ TFEditor_addFunction(f)
  /\ ret' = [op |-> "addFunction", f |-> f]
  /\ UNCHANGED <<overVars, curveVars, glVars>>

SetBackground(bg) ==
  /\ ret = NoRet
  /\ TFEditor_setBackground(bg)
  /\ ret' = [op |-> "setBackground"]
  /\ UNCHANGED <<overVars, curveVars, glVars>>

MoveToTop(f) ==
  /\ ret = NoRet
  /\ TFEditor_moveToTop(f)
  /\ ret' = [op |-> "moveToTop", f |-> f, before |-> functions]
  /\ UNCHANGED <<overVars, curveVars, glVars>>

CallSelect(pos) ==
  /\ ret = NoRet
  /\ ret' = [op |-> "select", pos |-> pos, val |-> Select(functions, pos)]
  /\ UNCHANGED <<functions, background, overVars, curveVars, glVars>>

CallEval(x) ==
  /\ ret = NoRet
  /\ ret' = [op |-> "eval", x |-> x, val |-> EditorEval(functions, x)]
  /\ UNCHANGED <<functions, background, overVars, curveVars, glVars>>

\* TFEditor::rasterize(width, height).  sat is what the build does with an
\* undefined float -> unsigned conversion; an access outside the texture
\* (oob) is undefined behaviour: the program stops there (crashed), or it
\* goes on and returns a texture, of which the model keeps the writes that
\* fell inside it.
CallRasterize(width, height) ==
  /\ ret = NoRet
  /\ \E sat \in BOOLEAN :
       LET oob == RasterizeOOB(functions, width, height, sat)
       IN  \E crashed \in (IF oob THEN BOOLEAN ELSE {FALSE}) :
             ret' = [op |-> "rasterize", width |-> width, height |-> height,
                     sat |-> sat, oob |-> oob, crashed |-> crashed,
                     tex |-> IF crashed THEN NoTex
                             ELSE Rasterize(functions, background, width, height, sat)]
  /\ UNCHANGED <<functions, background, overVars, curveVars, glVars>>

\* the caller goes on after a call that returned
Return ==
  /\ ret # NoRet
  /\ ~Crashed
  /\ ret' = NoRet
  /\ UNCHANGED <<functions, background, overVars, curveVars, glVars>>

Init == OverIdle /\ CurveIdle /\ EditorIdle

Next ==
  \/ \E f \in FuncPtrs : AddFunction(f)
  \/ \E bg \in Backgrounds : SetBackground(bg)
  \/ \E f \in FuncPtrs : MoveToTop(f)
  \/ \E pos \in SelectXs \X SelectYs : CallSelect(pos)
  \/ \E x \in EditorEvalXs : CallEval(x)
  \/ \E width \in Widths, height \in 1 .. MaxH : CallRasterize(width, height)
  \/ Return

Spec == Init /\ [][Next]_vars

(***************************************************************************)
(* A TFEditorImGui (a TFEditorOpenGL) and the calls of its caller; ret is  *)
(* the last call made.                                                     *)
(***************************************************************************)
\* unsigned margin=8
margin == 8

\* the sizes given to draw
DrawSizes == {<<2 * margin + MaxW, 2 * margin + h>> : h \in 1 .. MaxH}

\* TFEditorOpenGL::addFunction
GLAddFunction(f) ==
  /\ ~Crashed
  /\ updated' = TRUE
  /\ TFEditor_addFunction(f)
  /\ ret' = [op |-> "addFunction", f |-> f]
  /\ UNCHANGED <<overVars, curveVars, prevWidth, prevHeight, gl>>

\* TFEditorOpenGL::setBackground
GLSetBackground(bg) ==
  /\ ~Crashed
  /\ updated' = TRUE
  /\ TFEditor_setBackground(bg)
  /\ ret' = [op |-> "setBackground"]
  /\ UNCHANGED <<overVars, curveVars, prevWidth, prevHeight, gl>>

\* TFEditorOpenGL::moveToTop
GLMoveToTop(f) ==
  /\ ~Crashed
  /\ updated' = TRUE
  /\ TFEditor_moveToTop(f)
  /\ ret' = [op |-> "moveToTop", f |-> f, before |-> functions]
  /\ UNCHANGED <<overVars, curveVars, prevWidth, prevHeight, gl>>

\* glGenTextures and its like: a name is generated for an object that has
\* none yet
GenName(name) == IF name = U(0) THEN U(1) ELSE name

\* TFEditorImGui::draw(width, height), which is setupTexture(width, height)
\* and the ImGui image button.  complete is the answer of
\* glCheckFramebufferStatus; sat and crashed are as in CallRasterize, for the
\* TFEditor::rasterize(resX, resY) of setupTFETexture.  ret tells whether
\* setupTexture returned at its first test (skipped), whether the framebuffer
\* was complete, and whether TFEditor::rasterize was called (rasterized).
\* A resX or resY that the unsigned subtraction wraps asks for a texture of
\* 2^31 pixels or more, whose allocation may fail and stop the program.
Draw(width, height) ==
  /\ ~Crashed
  /\ gl.uploads < MaxUploads
  /\ IF ~updated /\ width = prevWidth /\ height = prevHeight
     THEN /\ ret' = [op |-> "draw", width |-> width, height |-> height,
                     skipped |-> TRUE, complete |-> FALSE,
                     rasterized |-> FALSE, crashed |-> FALSE]
          /\ UNCHANGED <<prevWidth, prevHeight, gl>>
     ELSE \E complete, sat \in BOOLEAN :
            LET names == [gl EXCEPT !.framebuffer = GenName(@),
                                    !.texture = GenName(@),
                                    !.depthbuffer = GenName(@)]
                resX == USub(U(width), U(2 * margin))
                resY == USub(U(height), U(2 * margin))
                oob == IF resX[1] >= 32768 \/ resY[1] >= 32768 THEN TRUE
                       ELSE RasterizeOOB(functions, resX[1] * 65536 + resX[2],
                                         resY[1] * 65536 + resY[2], sat)
            IN  IF ~complete
                THEN /\ ret' = [op |-> "draw", width |-> width, height |-> height,
                                skipped |-> FALSE, complete |-> FALSE,
                                rasterized |-> FALSE, crashed |-> FALSE]
                     /\ gl' = names
                     /\ UNCHANGED <<prevWidth, prevHeight>>
                ELSE \E crashed \in (IF oob THEN BOOLEAN ELSE {FALSE}) :
                       /\ ret' = [op |-> "draw", width |-> width, height |-> height,
                                  skipped |-> FALSE, complete |-> TRUE,
                                  rasterized |-> TRUE, crashed |-> crashed]
                       /\ gl' = IF crashed THEN names
                                ELSE [names EXCEPT !.uploads = @ + 1]
                       /\ prevWidth' = IF crashed THEN prevWidth ELSE width
                       /\ prevHeight' = IF crashed THEN prevHeight ELSE height
  /\ UNCHANGED <<functions, background, updated, overVars, curveVars>>

InitGL == OverIdle /\ CurveIdle /\ EditorIdle

NextGL ==
  \/ \E f \in FuncPtrs : GLAddFunction(f)
  \/ \E bg \in Backgrounds : GLSetBackground(bg)
  \/ \E f \in FuncPtrs : GLMoveToTop(f)
  \/ \E size \in DrawSizes : Draw(size[1], size[2])

SpecGL == InitGL /\ [][NextGL]_vars

(***************************************************************************)
(* The claims                                                              *)
(***************************************************************************)
ZeroVec == <<Zero, Zero, Zero, Zero>>

\* C6, as stated: whenever the source's alpha is 0, whatever its R, G and B
\* are, over(src, dst) is dst in all four channels.
C6_TransparentSrcGivesDst ==
  (ovR # NoVec /\ ovA[4] = Zero) => ovR = ovB

\* C6, amended: for a source whose alpha is 0, over(src, dst) is the float
\* sum src + dst in every channel; so it is dst in all four channels when the
\* source's R, G and B are 0 too.
C6_ZeroSrcGivesDst ==
  (ovR # NoVec /\ ovA[4] = Zero) =>
    /\ \A c \in 1 .. 4 : ovR[c] = fadd(ovA[c], ovB[c])
    /\ ovA = ZeroVec => ovR = ovB

C6_Witness ==
  /\ ovR # NoVec
  /\ ovA = ZeroVec
  /\ ovB = <<One, F(1, 2), Zero, F(1, 2)>>
  /\ ovR = ovB

\* the PiecewiseLinear that eval scans: a Tent's is its internal one
CurvePL == IF curve.kind = "Tent" THEN curve.internal ELSE curve

\* C4: eval(x) is 0 for every x below the lower or above the upper end of
\* the curve's valueRange at the time of the call, PiecewiseLinear and Tent
\* alike.
C4_OutOfDomainIsZero ==
  (/\ cret.op = "eval"
   /\ \/ flt(cret.x, curve.valueRange.lower)
      \/ fgt(cret.x, curve.valueRange.upper))
  => cret.val = Zero

\* the control points of a curve at which C5 can hold: px lies in the
\* curve's valueRange, and every control point at px has the same y
C5_Covers(pl, i) ==
  LET cps == pl.controlPoints
      px == cps[i][1]
  IN  /\ ~flt(px, pl.valueRange.lower)
      /\ ~fgt(px, pl.valueRange.upper)
      /\ \A j \in 1 .. Len(cps) : cps[j][1] = px => cps[j][2] = cps[i][2]

\* |a| for a float that is not NaN
C5_Abs(a) == <<Abs(a[1]), a[2]>>

\* the index of the first control point at px
C5_First(cps, px) == CHOOSE j \in 1 .. Len(cps) :
  cps[j][1] = px /\ \A k \in 1 .. j - 1 : cps[k][1] # px

\* the pair (p1, p2) of control points that eval(px) interpolates between,
\* for the x of a control point: the first control point at px is p2, or it
\* is p1 when it is the first of all
C5_Segment(cps, px) ==
  LET j == C5_First(cps, px)
  IN  IF j = 1 THEN <<cps[1], cps[2]>> ELSE <<cps[j - 1], cps[j]>>

\* v is py up to the rounding of an interpolation from a control point of
\* ordinate p1y: |v - py| <= 2^-21 * max(|py|, |p1y|)
C5_Near(v, py, p1y) ==
  /\ ~IsNaN(v)
  /\ ~fgt(C5_Abs(fsub(v, py)), fmul(<<1, -21>>, fmaxf(C5_Abs(py), C5_Abs(p1y))))

\* C5: a piecewise-linear curve with at least 2 control points, ascending in
\* x, evaluates to py at the x of every control point (px, py).  The claim is
\* read in its favour: only for a px in the curve's valueRange at which all
\* control points have the same y, and with py met up to the rounding of the
\* floats.
C5_EvalAtEveryControlPoint ==
  (cret.op = "eval" /\ Len(CurvePL.controlPoints) >= 2) =>
    \A i \in 1 .. Len(CurvePL.controlPoints) :
      (CurvePL.controlPoints[i][1] = cret.x /\ C5_Covers(CurvePL, i)) =>
        C5_Near(cret.val, CurvePL.controlPoints[i][2],
                C5_Segment(CurvePL.controlPoints, cret.x)[1][2])

\* s without the elements equal to f
Without(s, f) == SelectSeq(s, LAMBDA e : e # f)

\* C1: moveToTop(f) makes a function f of the list its last element and
\* keeps the order of the others; the list is unchanged when f is not in it
\* or is its last element already.
C1_MoveToTopMovesLast ==
  ret.op = "moveToTop" =>
    LET before == ret.before
        f == ret.f
    IN  IF (\E i \in 1 .. Len(before) : before[i] = f) /\ before[Len(before)] # f
        THEN /\ Len(functions) = Len(before)
             /\ functions[Len(functions)] = f
             /\ Without(functions, f) = Without(before, f)
        ELSE functions = before

\* the indices of the functions whose filled area holds pos
C2_Holding(pos) ==
  {i \in 1 .. Len(functions) : fgt(Eval(Deref(functions[i]), pos[1]), pos[2])}

\* C2: select(pos) returns the function of the highest index i with
\* functions[i].eval(pos.x) > pos.y, and null exactly when there is none.
C2_SelectTopmost ==
  ret.op = "select" =>
    LET S == C2_Holding(ret.pos)
    IN  IF S = {} THEN ret.val = 0
        ELSE /\ ret.val # 0
             /\ ret.val = functions[CHOOSE i \in S : \A j \in S : j <= i]

\* two different functions hold the point, and the later one is returned
C2_Witness ==
  /\ ret.op = "select"
  /\ Len(functions) = 2
  /\ functions[1] # functions[2]
  /\ C2_Holding(ret.pos) = {1, 2}
  /\ ret.val = functions[2]

\* the pixels that the outline of a rasterize call overwrites
C3_Outline(x, y) ==
  /\ OutlinePlots(functions, x, ret.width)
  /\ OutlineY(functions, x, ret.width, ret.height, ret.sat) = U(y)

\* pixel (x, y) of the temporary image of function i
C3_LayerPixel(i, x, y) ==
  TexGet(FunctionRasterize(Deref(functions[i]), ret.width, ret.height, ret.sat),
         U(x), U(y))

\* acc after the functions i .. Len(functions) went under it, one by one
RECURSIVE C3_Under(_, _, _, _)
C3_Under(acc, i, x, y) ==
  IF i > Len(functions) THEN acc
  ELSE C3_Under(layerOverPixel(C3_LayerPixel(i, x, y), acc), i + 1, x, y)

C3_Expected(x, y) ==
  LET acc == C3_Under(<<0, 0, 0, 0>>, 1, x, y)
  IN  IF background = NullLayer THEN acc
      ELSE layerOverPixel(CheckersPixel(background, x, y), acc)

C7_Opaque(c) == <<255 * c[1][1], 255 * c[2][1], 255 * c[3][1], 255>>

\* C7: with no function and a Checkers background, pixel (x, y) of
\* rasterize's result is the opaque color1 when (x/cs) % 2 = (y/cs) % 2 and
\* the opaque color2 otherwise.
C7_BackgroundOnly ==
  (/\ ret.op = "rasterize"
   /\ ~ret.crashed
   /\ functions = <<>>
   /\ background # NullLayer)
  => \A x \in 0 .. ret.width - 1, y \in 0 .. ret.height - 1 :
       TexGet(ret.tex, U(x), U(y)) =
         IF (x \div background.checkerSize) % 2 = (y \div background.checkerSize) % 2
         THEN C7_Opaque(background.color1)
         ELSE C7_Opaque(background.color2)

\* a background of cells wider than a pixel, rasterized into an image that
\* shows both colours in its bottom row
C7_Witness ==
  /\ ret.op = "rasterize"
  /\ ~ret.crashed
  /\ functions = <<>>
  /\ background # NullLayer
  /\ background.checkerSize = 2
  /\ ret.width >= 3
  /\ TexGet(ret.tex, U(0), U(0)) = C7_Opaque(background.color1)
  /\ TexGet(ret.tex, U(1), U(0)) = C7_Opaque(background.color1)
  /\ TexGet(ret.tex, U(2), U(0)) = C7_Opaque(background.color2)

\* the values of the registered functions at x
C8_Values(x) == {Eval(Deref(functions[i]), x) : i \in 1 .. Len(functions)}

\* v is the greatest element of the set S of floats
C8_IsMax(v, S) == v \in S /\ \A w \in S : ~flt(v, w)

\* C8, as stated: eval(x) is the maximum of f.eval(x) over the registered
\* functions f, and 0 when there is none.
C8_EvalIsMaximum ==
  ret.op = "eval" =>
    IF functions = <<>> THEN ret.val = Zero
    ELSE C8_IsMax(ret.val, C8_Values(ret.x))

\* C8, amended: eval(x) is the maximum of 0 and of the f.eval(x) of the
\* registered functions f that are numbers (not NaN); so it is 0 when there
\* is no function, and also when every function is below 0 at x.
C8_EvalIsMaximumWithZero ==
  ret.op = "eval" =>
    C8_IsMax(ret.val, {Zero} \cup (C8_Values(ret.x) \ {NaN}))

\* two functions with different positive values at x
C8_Witness ==
  /\ ret.op = "eval"
  /\ Len(functions) = 2
  /\ fgt(Eval(Deref(functions[1]), ret.x), Eval(Deref(functions[2]), ret.x))
  /\ fgt(Eval(Deref(functions[2]), ret.x), Zero)
  /\ ret.val = Eval(Deref(functions[1]), ret.x)

\* the control points of a curve have their y in [0, 1], so its values are
C9_InUnit(f) ==
  LET cps == IF f.kind = "Tent" THEN f.internal.controlPoints ELSE f.controlPoints
  IN  \A i \in 1 .. Len(cps) : ~flt(cps[i][2], Zero) /\ ~fgt(cps[i][2], One)

\* C9: with functions whose values lie in [0, 1], with or without a
\* background, and W >= 2, H >= 1, every Texture::set and Texture::get of
\* rasterize(W, H) has 0 <= x < W and 0 <= y < H.
C9_AccessInBounds ==
  (/\ ret.op = "rasterize"
   /\ ret.width >= 2
   /\ ret.height >= 1
   /\ \A i \in 1 .. Len(functions) : C9_InUnit(Deref(functions[i])))
  => ~ret.oob

\* C10: a draw of the size of the last completed render, with no
\* addFunction, setBackground or moveToTop since, does not call
\* TFEditor::rasterize (and uploads no image); a draw that follows such a call,
\* or has another size, does (when the framebuffer is complete).
C10_CacheSkipsRender ==
  [][(ret'.op = "draw" /\ ~ret'.crashed) =>
       /\ (/\ ret.op = "draw"
           /\ ret.rasterized
           /\ ret'.width = prevWidth
           /\ ret'.height = prevHeight)
          => (~ret'.rasterized /\ gl'.uploads = gl.uploads)
       /\ (/\ \/ ret.op \in {"addFunction", "setBackground", "moveToTop"}
              \/ ret'.width # prevWidth
              \/ ret'.height # prevHeight
           /\ ret'.complete)
          => (ret'.rasterized /\ gl'.uploads = gl.uploads + 1)]_vars

====
